---------------------------- MODULE Spec2Model ----------------------------
(***************************************************************************)
(* Model of the ACQ-Reviewer backend (src/backend/app.py): the POST        *)
(* /analyze handler, analyze_code and run_tool.  Each request is a         *)
(* process walking through the handler; the temporary directory is the     *)
(* only state requests share.  Text is a sequence of one-character         *)
(* strings.                                                                *)
(***************************************************************************)
EXTENDS Integers, Sequences, FiniteSets, TLC

(* ------------------------------ bounds -------------------------------- *)

\* Number of POST /analyze requests in flight in the concurrent server.
NReq == 2

\* Longest text (stdout + stderr) a tool prints in the single-request runs.
MaxOutLen == 4

Requests == 1..NReq

\* tempfile draws a name that is not in use; one name per request suffices.
Names == 1..NReq

(* ------------------------------- text --------------------------------- *)

Whitespace == {" ", "\t", "\n"}

OutChars == {":", " ", "x"}

\* A lone UTF-16 surrogate (JSON "\ud800"): a str character UTF-8 cannot encode.
Surrogate == "\\ud800"

StringsUpTo(A, n) == UNION {[1..k -> A] : k \in 0..n}

Min(S) == CHOOSE x \in S : \A y \in S : x <= y

Max(S) == CHOOSE x \in S : \A y \in S : x >= y

\* str.count(c) for a one-character c
Count(s, c) == Cardinality({i \in DOMAIN s : s[i] = c})

\* Mutant of Strip: strips ':' as well, as str.strip(": \n") would.
StripColons(s) ==
    LET keep == {i \in DOMAIN s : s[i] \notin Whitespace \cup {":"}}
    IN  IF keep = {} THEN <<>> ELSE SubSeq(s, Min(keep), Max(keep))

\* str.strip(): drop leading and trailing whitespace
Strip(s) ==
    LET keep == {i \in DOMAIN s : s[i] \notin Whitespace}
    IN  IF keep = {} THEN <<>> ELSE SubSeq(s, Min(keep), Max(keep))

\* UTF-8 of one character
Utf8(c) ==
    CASE c = " " -> <<32>>
      [] c = "a" -> <<97>>
      [] c = ":" -> <<58>>
      [] OTHER   -> <<>>

RECURSIVE EncodeBytes(_)
EncodeBytes(s) == IF s = <<>> THEN <<>> ELSE Utf8(Head(s)) \o EncodeBytes(Tail(s))

\* code.encode(): raises UnicodeEncodeError on a lone surrogate
Encode(s) ==
    IF \E i \in DOMAIN s : s[i] = Surrogate
    THEN [raised |-> TRUE, bytes |-> <<>>]
    ELSE [raised |-> FALSE, bytes |-> EncodeBytes(s)]

(* --------------------------- request bodies --------------------------- *)

NoValue == [type |-> "none", str |-> <<>>]

StrValue(s) == [type |-> "str", str |-> s]

IntValue == [type |-> "int", str |-> <<>>]

JsonNull == [json |-> "null", keys |-> {}, code |-> NoValue]

JsonObject(keys, v) == [json |-> "object", keys |-> keys, code |-> v]

\* The code strings a client posts.
Codes == { <<>>, <<"\n", " ">>, <<" ", "a", ":", " ">>, <<"a", Surrogate>> }

Bodies ==
    {JsonNull, JsonObject({}, NoValue), JsonObject({"code"}, IntValue)}
    \cup {JsonObject({"code"}, StrValue(c)) : c \in Codes}

\* data.get("code", "")
DictGet(d, default) == IF "code" \in d.keys THEN d.code ELSE default

(* --------------------------- tool outcomes ---------------------------- *)

\* What subprocess.run did: returned a result, or raised e with str(e) = msg.
Returned(out, err) == [raised |-> FALSE, stdout |-> out, stderr |-> err, msg |-> <<>>]

Raised(msg) == [raised |-> TRUE, stdout |-> <<>>, stderr |-> <<>>, msg |-> msg]

\* str(e) of an invocation failure: "[Errno 2] No such file or directory: 'pylint'"
NotFound == <<"x", ":", " ", "x">>

\* "embedded null byte"
NullByte == <<"x">>

\* Every split of a printed text into stdout and stderr, and every failure.
Outcomes(Outs, Errs) ==
    UNION {{Returned(SubSeq(o, 1, k), SubSeq(o, k + 1, Len(o))) : k \in 0..Len(o)} : o \in Outs}
    \cup {Raised(m) : m \in Errs}

\* Tool outcomes of the single-request runs and of the concurrent server.
ReportOutcomes == Outcomes(StringsUpTo(OutChars, MaxOutLen), {NotFound, NullByte})

ServerOutcomes == Outcomes({ <<"x", ":", " ", ":", "\n">> }, {NotFound})

\* Mutant of run_tool: no except clause, the exception escapes.
run_tool_uncaught(o) ==
    [escapes |-> o.raised,
     text    |-> IF o.raised THEN <<>> ELSE o.stdout \o o.stderr]

\* run_tool: the text returned to analyze_code, or the exception that escapes
run_tool(o) ==
    [escapes |-> FALSE,
     text    |-> IF o.raised THEN o.msg ELSE o.stdout \o o.stderr]

(* ------------------------------ scoring ------------------------------- *)

\* issues = pylint_out.count(":") + flake8_out.count(":")
Issues(p, f) == Count(p, ":") + Count(f, ":")

\* Mutant of Score: the penalty of demo/app.py, 5 a colon.
ScoreHalfPenalty(n) == IF 100 - n * 5 >= 40 THEN 100 - n * 5 ELSE 40

\* Mutant of Score: the max(..., 40) is missing.
ScoreNoFloor(n) == 100 - n * 10

\* score = max(100 - issues * 10, 40)
Score(n) == IF 100 - n * 10 >= 40 THEN 100 - n * 10 ELSE 40

\* Mutant of Verdict: > in place of >=.
VerdictStrict(sc) == IF sc > 80 THEN "Good Quality" ELSE "Needs Improvement"

\* verdict = "Good Quality" if score >= 80 else "Needs Improvement"
Verdict(sc) == IF sc >= 80 THEN "Good Quality" ELSE "Needs Improvement"

Report(sc, n, v, p, f) ==
    [summary |-> [quality_score |-> sc, total_issues |-> n, verdict |-> v],
     details |-> [pylint |-> Strip(p), flake8 |-> Strip(f)]]

NoReport == Report(0, 0, "", <<>>, <<>>)

\* jsonify(...) with its status code
Response(status, err, rep) == [status |-> status, error |-> err, report |-> rep]

NoResponse == Response(0, "", NoReport)

(* ------------------------------- state -------------------------------- *)

VARIABLES
    pc,          \* where each request is in analyze / analyze_code
    data,        \* request.json
    code,        \* the code local
    temp,        \* temp.name inside the with block
    file_path,   \* file_path
    fs,          \* temporary directory: name -> [owner, bytes]
    pylint_out,
    flake8_out,
    response,    \* what the client received
    log          \* history: filesystem and subprocess operations of each request

vars == <<pc, data, code, temp, file_path, fs, pylint_out, flake8_out,
          response, log>>

NoPath == 0

Init ==
    /\ pc = [r \in Requests |-> "idle"]
    /\ data = [r \in Requests |-> JsonNull]
    /\ code = [r \in Requests |-> <<>>]
    /\ temp = [r \in Requests |-> NoPath]
    /\ file_path = [r \in Requests |-> NoPath]
    /\ fs = <<>>
    /\ pylint_out = [r \in Requests |-> <<>>]
    /\ flake8_out = [r \in Requests |-> <<>>]
    /\ response = [r \in Requests |-> NoResponse]
    /\ log = [r \in Requests |-> <<>>]

(* --------------------------- the filesystem --------------------------- *)

\* Mutant of FreshNames: a name is drawn without looking at the directory.
AnyName(files) == Names

\* Names tempfile may return: those of no existing file (O_EXCL creation).
FreshNames(files) == Names \ DOMAIN files

Exists(files, p) == p \in DOMAIN files

\* open(p, "w+b") by request r: an empty file
Create(files, p, r) ==
    [n \in DOMAIN files \cup {p} |-> IF n = p THEN [owner |-> r, bytes |-> <<>>] ELSE files[n]]

\* Mutant of Flush: the buffer is not flushed before the tools run.
FlushNothing(files, p, b) == files

\* write + close: the buffered bytes reach the file
Flush(files, p, b) ==
    [n \in DOMAIN files |-> IF n = p THEN [files[n] EXCEPT !.bytes = b] ELSE files[n]]

\* Mutant of Remove: the unlink is missing.
RemoveNothing(files, p) == files

\* os.unlink(p)
Remove(files, p) == [n \in DOMAIN files \ {p} |-> files[n]]

\* What the file system shows a subprocess started on path p.
Seen(files, p) ==
    IF Exists(files, p)
    THEN [exists |-> TRUE, owner |-> files[p].owner, bytes |-> files[p].bytes]
    ELSE [exists |-> FALSE, owner |-> 0, bytes |-> <<>>]

Event(op, p, seen, raised, text) ==
    [op |-> op, path |-> p, seen |-> seen, raised |-> raised, text |-> text]

\* An unhandled exception in the view: Flask answers 500.
Abort(r) ==
    /\ pc' = [pc EXCEPT ![r] = "done"]
    /\ response' = [response EXCEPT ![r] = Response(500, "Internal Server Error", NoReport)]

(* ------------------------------ actions ------------------------------- *)

\* A POST /analyze request arrives with a JSON body.
Receive(r) ==
    /\ pc[r] = "idle"
    /\ \E b \in Bodies : data' = [data EXCEPT ![r] = b]
    /\ pc' = [pc EXCEPT ![r] = "analyze"]
    /\ UNCHANGED <<code, temp, file_path, fs, pylint_out, flake8_out, response, log>>

\* Mutant of IsBlank: not code
IsEmpty(s) == s = <<>>

\* not code.strip()
IsBlank(s) == Strip(s) = <<>>

\* analyze(): read the body, validate, and enter analyze_code
analyze(r) ==
    /\ pc[r] = "analyze"
    /\ LET c == DictGet(data[r], StrValue(<<>>)) IN
         \/ /\ data[r].json = "null"              \* None.get: AttributeError
            /\ Abort(r)
            /\ UNCHANGED code
         \/ /\ data[r].json = "object"
            /\ c.type # "str"                     \* int.strip: AttributeError
            /\ Abort(r)
            /\ UNCHANGED code
         \/ /\ data[r].json = "object"
            /\ c.type = "str"
            /\ IsBlank(c.str)
            /\ code' = [code EXCEPT ![r] = c.str]
            /\ pc' = [pc EXCEPT ![r] = "done"]
            /\ response' = [response EXCEPT ![r] = Response(400, "No code provided", NoReport)]
         \/ /\ data[r].json = "object"
            /\ c.type = "str"
            /\ ~IsBlank(c.str)
            /\ code' = [code EXCEPT ![r] = c.str]
            /\ pc' = [pc EXCEPT ![r] = "tempfile"]
            /\ UNCHANGED response
    /\ UNCHANGED <<data, temp, file_path, fs, pylint_out, flake8_out, log>>

\* tempfile.NamedTemporaryFile(delete=False, suffix=".py")
NamedTemporaryFile(r) ==
    /\ pc[r] = "tempfile"
    /\ \E p \in FreshNames(fs) :
         /\ fs' = Create(fs, p, r)
         /\ temp' = [temp EXCEPT ![r] = p]
         /\ log' = [log EXCEPT ![r] = Append(@, Event("create", p, Seen(fs', p), FALSE, <<>>))]
    /\ pc' = [pc EXCEPT ![r] = "write"]
    /\ UNCHANGED <<data, code, file_path, pylint_out, flake8_out, response>>

\* temp.write(code.encode()); file_path = temp.name; leaving the with block
WriteTemp(r) ==
    /\ pc[r] = "write"
    /\ LET e == Encode(code[r]) IN
         \/ /\ e.raised                            \* the file is closed and stays
            /\ Abort(r)
            /\ UNCHANGED <<fs, file_path, log>>
         \/ /\ ~e.raised
            /\ fs' = Flush(fs, temp[r], e.bytes)
            /\ file_path' = [file_path EXCEPT ![r] = temp[r]]
            /\ log' = [log EXCEPT ![r] = Append(@, Event("write", temp[r], Seen(fs', temp[r]), FALSE, <<>>))]
            /\ pc' = [pc EXCEPT ![r] = "pylint"]
            /\ UNCHANGED response
    /\ UNCHANGED <<data, code, temp, pylint_out, flake8_out>>

\* pylint_out = run_tool(["pylint", file_path, ...], file_path)
RunPylint(r, outcomes) ==
    /\ pc[r] = "pylint"
    /\ \E o \in outcomes :
         LET res == run_tool(o) IN
           /\ log' = [log EXCEPT ![r] =
                        Append(@, Event("pylint", file_path[r], Seen(fs, file_path[r]), o.raised, o.msg))]
           /\ IF res.escapes
              THEN Abort(r) /\ UNCHANGED pylint_out
              ELSE /\ pylint_out' = [pylint_out EXCEPT ![r] = res.text]
                   /\ pc' = [pc EXCEPT ![r] = "flake8"]
                   /\ UNCHANGED response
    /\ UNCHANGED <<data, code, temp, file_path, fs, flake8_out>>

\* flake8_out = run_tool(["flake8", file_path], file_path)
RunFlake8(r, outcomes) ==
    /\ pc[r] = "flake8"
    /\ \E o \in outcomes :
         LET res == run_tool(o) IN
           /\ log' = [log EXCEPT ![r] =
                        Append(@, Event("flake8", file_path[r], Seen(fs, file_path[r]), o.raised, o.msg))]
           /\ IF res.escapes
              THEN Abort(r) /\ UNCHANGED flake8_out
              ELSE /\ flake8_out' = [flake8_out EXCEPT ![r] = res.text]
                   /\ pc' = [pc EXCEPT ![r] = "score"]
                   /\ UNCHANGED response
    /\ UNCHANGED <<data, code, temp, file_path, fs, pylint_out>>

\* issues, score, verdict; os.unlink(file_path); return {...}; jsonify(report)
ScoreAndReturn(r) ==
    /\ pc[r] = "score"
    /\ LET n  == Issues(pylint_out[r], flake8_out[r])
           sc == Score(n)
       IN  IF Exists(fs, file_path[r])
           THEN /\ fs' = Remove(fs, file_path[r])
                /\ log' = [log EXCEPT ![r] =
                             Append(@, Event("unlink", file_path[r], Seen(fs, file_path[r]), FALSE, <<>>))]
                /\ response' = [response EXCEPT ![r] =
                                  Response(200, "", Report(sc, n, Verdict(sc), pylint_out[r], flake8_out[r]))]
                /\ pc' = [pc EXCEPT ![r] = "done"]
           ELSE /\ Abort(r)                        \* FileNotFoundError
                /\ UNCHANGED <<fs, log>>
    /\ UNCHANGED <<data, code, temp, file_path, pylint_out, flake8_out>>

(* --------------------------- specifications --------------------------- *)

\* The server: NReq requests interleave; each is served by its own worker.
Next ==
    \E r \in Requests :
        \/ Receive(r)
        \/ analyze(r)
        \/ NamedTemporaryFile(r)
        \/ WriteTemp(r)
        \/ RunPylint(r, ServerOutcomes)
        \/ RunFlake8(r, ServerOutcomes)
        \/ ScoreAndReturn(r)

Spec == Init /\ [][Next]_vars

\* One request, the tools printing every text of up to MaxOutLen characters.
NextReport ==
    \/ Receive(1)
    \/ analyze(1)
    \/ NamedTemporaryFile(1)
    \/ WriteTemp(1)
    \/ RunPylint(1, ReportOutcomes)
    \/ RunFlake8(1, ReportOutcomes)
    \/ ScoreAndReturn(1)

SpecReport == Init /\ [][NextReport]_vars

(* ------------------------------ helpers ------------------------------- *)

Returned200(r) == pc[r] = "done" /\ response[r].status = 200

Summary(r) == response[r].report.summary

Details(r) == response[r].report.details

Ops(r) == [i \in DOMAIN log[r] |-> log[r][i].op]

IsPrefix(s, t) == Len(s) <= Len(t) /\ s = SubSeq(t, 1, Len(s))

ToolEvents(r) == {i \in DOMAIN log[r] : log[r][i].op \in {"pylint", "flake8"}}

OwnedFiles(r) == {n \in DOMAIN fs : fs[n].owner = r}

\* The posted body is a JSON object whose code is a string.
PostedCode(r) == data[r].json = "object" /\ DictGet(data[r], StrValue(<<>>)).type = "str"

CodeOf(r) == DictGet(data[r], StrValue(<<>>)).str

\* Between creating the temporary file and deleting it.
HoldsFile(r) == pc[r] \in {"write", "pylint", "flake8", "score"}

(* ------------------------------- claims ------------------------------- *)

\* C1: in every returned report quality_score is 100 - 10 * total_issues when
\* that value is at least 40 and 40 otherwise; 7 or more issues always give 40.
C1_ScoreFormula ==
    \A r \in Requests : Returned200(r) =>
        LET n == Summary(r).total_issues
            q == Summary(r).quality_score
        IN  /\ (100 - 10 * n >= 40 => q = 100 - 10 * n)
            /\ (100 - 10 * n < 40 => q = 40)
            /\ (n >= 7 => q = 40)

\* C1 witness: a report with 8 issues, clamped at 40.
C1_Witness ==
    \E r \in Requests :
        Returned200(r) /\ Summary(r).total_issues = 8 /\ Summary(r).quality_score = 40

C3_Verdict ==
    \A r \in Requests : Returned200(r) =>
        /\ Summary(r).verdict \in {"Good Quality", "Needs Improvement"}
        /\ (Summary(r).verdict = "Good Quality" <=> Summary(r).quality_score >= 80)

\* C3 witness: the boundary score 80 is judged "Good Quality".
C3_Witness ==
    \E r \in Requests :
        /\ Returned200(r)
        /\ Summary(r).total_issues = 2
        /\ Summary(r).quality_score = 80
        /\ Summary(r).verdict = "Good Quality"

\* C4: total_issues equals the number of ':' in details.pylint plus the number
\* in details.flake8, although it was counted before the outputs were trimmed.
C4_IssuesMatchDetails ==
    \A r \in Requests : Returned200(r) =>
        Summary(r).total_issues = Count(Details(r).pylint, ":") + Count(Details(r).flake8, ":")

\* C4 witness: a report whose two outputs both lost whitespace and hold colons.
C4_Witness ==
    \E r \in Requests :
        /\ Returned200(r)
        /\ Details(r).pylint # pylint_out[r]
        /\ Details(r).flake8 # flake8_out[r]
        /\ Count(pylint_out[r], ":") > 0
        /\ Count(flake8_out[r], ":") > 0

\* C5: a request whose code is empty, whitespace-only or missing ends with
\* 400 {"error": "No code provided"}; no temporary file is created, no tool is
\* invoked and no report is generated.
C5_BlankRejected ==
    \A r \in Requests :
        (pc[r] # "idle" /\ pc[r] # "analyze" /\ PostedCode(r) /\ Strip(CodeOf(r)) = <<>>) =>
            /\ pc[r] = "done"
            /\ response[r] = Response(400, "No code provided", NoReport)
            /\ log[r] = <<>>
            /\ temp[r] = NoPath
            /\ OwnedFiles(r) = {}

\* C5 witness: a whitespace-only code was answered 400.
C5_Witness ==
    \E r \in Requests :
        /\ pc[r] = "done"
        /\ data[r] = JsonObject({"code"}, StrValue(<<"\n", " ">>))
        /\ response[r].status = 400

\* C6: a failed tool invocation is caught for that tool alone: its message
\* becomes that tool's output and is counted, the other tool still runs, and
\* the request returns a report.
C6_ToolFailureAbsorbed ==
    \A r \in Requests : \A i \in ToolEvents(r) : log[r][i].raised =>
        /\ response[r].status # 500
        /\ log[r][i].op = "pylint" => pylint_out[r] = log[r][i].text
        /\ log[r][i].op = "flake8" => flake8_out[r] = log[r][i].text
        /\ pc[r] = "done" =>
             /\ response[r].status = 200
             /\ {log[r][j].op : j \in ToolEvents(r)} = {"pylint", "flake8"}
             /\ Summary(r).total_issues = Count(pylint_out[r], ":") + Count(flake8_out[r], ":")
             /\ log[r][i].op = "pylint" => Details(r).pylint = Strip(log[r][i].text)
             /\ log[r][i].op = "flake8" => Details(r).flake8 = Strip(log[r][i].text)

\* C6 witness: pylint failed with a message holding a colon, flake8 ran and
\* printed, and the report counts the message.
C6_Witness ==
    \E r \in Requests :
        /\ Returned200(r)
        /\ \E i, j \in ToolEvents(r) :
             /\ log[r][i].op = "pylint" /\ log[r][i].raised
             /\ Count(log[r][i].text, ":") = 1
             /\ log[r][j].op = "flake8" /\ ~log[r][j].raised
        /\ Summary(r).total_issues = 1 + Count(flake8_out[r], ":")

\* C7: the only failure status a client receives is the 400 of input
\* validation: every request whose code is non-empty after trimming ends
\* with a 200 response carrying a report, whatever happens while the file is
\* written or the tools run.
C7_OnlyValidationFails ==
    \A r \in Requests : (pc[r] = "done" /\ PostedCode(r)) =>
        /\ response[r].status \in {200, 400}
        /\ Strip(CodeOf(r)) # <<>> => response[r].status = 200

\* C8: a request that enters analyze_code creates exactly one temporary file;
\* when its report is returned the file is gone, and it is deleted only after
\* both tools have run.
C8_TempFileDeleted ==
    \A r \in Requests :
        LET creates == {i \in DOMAIN log[r] : log[r][i].op = "create"}
            unlinks == {i \in DOMAIN log[r] : log[r][i].op = "unlink"}
        IN  /\ (pc[r] \notin {"idle", "analyze", "tempfile"} /\ temp[r] # NoPath) =>
                 Cardinality(creates) = 1
            /\ (pc[r] = "done" /\ ~IsBlank(code[r])) => Cardinality(creates) = 1
            /\ Returned200(r) => (OwnedFiles(r) = {} /\ Cardinality(unlinks) = 1)
            /\ \A u \in unlinks :
                 /\ \E i \in 1..(u - 1) : log[r][i].op = "pylint"
                 /\ \E i \in 1..(u - 1) : log[r][i].op = "flake8"
            /\ HoldsFile(r) => OwnedFiles(r) = {temp[r]}

\* C8 witness: a report was returned and the request's file is gone while
\* another request's file is still there.
C8_Witness ==
    \E r \in Requests :
        /\ Returned200(r)
        /\ OwnedFiles(r) = {}
        /\ log[r][1].op = "create"
        /\ DOMAIN fs # {}

\* C9: the steps of one request come in a fixed order: write and close the
\* file, run the linter once, then the style checker once, then delete the
\* file; the complete file is there during both invocations.
C9_StepOrder ==
    \A r \in Requests :
        /\ IsPrefix(Ops(r), <<"create", "write", "pylint", "flake8", "unlink">>)
        /\ Returned200(r) => Len(log[r]) = 5
        /\ \A i \in ToolEvents(r) :
             /\ log[r][i].path = file_path[r]
             /\ log[r][i].path = log[r][1].path
             /\ log[r][i].seen.exists
             /\ log[r][i].seen.bytes = Encode(code[r]).bytes

\* C9 witness: a request went through all five steps on a non-empty file.
C9_Witness ==
    \E r \in Requests :
        /\ Returned200(r)
        /\ Ops(r) = <<"create", "write", "pylint", "flake8", "unlink">>
        /\ log[r][3].seen.bytes = <<32, 97, 58, 32>>

\* C10: concurrent requests never share a temporary file: each request's
\* tools read its own file, each request deletes its own file, and its
\* report is computed from its own outputs.
C10_Isolation ==
    \A r \in Requests :
        /\ \A q \in Requests \ {r} : (HoldsFile(r) /\ HoldsFile(q)) => temp[r] # temp[q]
        /\ HoldsFile(r) => (Exists(fs, temp[r]) /\ fs[temp[r]].owner = r)
        /\ \A i \in DOMAIN log[r] :
             log[r][i].op \in {"pylint", "flake8", "unlink"} =>
                 /\ log[r][i].seen.exists
                 /\ log[r][i].seen.owner = r
                 /\ log[r][i].seen.bytes = Encode(code[r]).bytes
        /\ Returned200(r) =>
             /\ Details(r) = [pylint |-> Strip(pylint_out[r]), flake8 |-> Strip(flake8_out[r])]
             /\ Summary(r).total_issues = Issues(pylint_out[r], flake8_out[r])

\* C10 witness: two requests have run the linter and both files still exist.
C10_Witness ==
    \E r, q \in Requests :
        /\ r # q
        /\ pc[r] = "flake8" /\ pc[q] = "score"
        /\ Exists(fs, temp[r]) /\ Exists(fs, temp[q])

=============================================================================
